---- MODULE Spec2Model ----
(***************************************************************************)
(* Model of the minor-contracts analysis of the Ayuntamiento de Madrid:    *)
(* contratos.py (the reporting functions over a pandas DataFrame) and      *)
(* main.py (the batch run that loads the file, sorts it and reports).      *)
(*                                                                         *)
(* A DataFrame is a sequence of rows; a row is a record with the columns   *)
(* NIF, CONTRATISTA, SECCION, ANIO (the column AÑO) and IMPORTE.  Amounts  *)
(* are integers (no missing values), so Series.count() is the number of    *)
(* rows.  An image saved is modelled by its path and the data charted;    *)
(* the drawing itself (matplotlib) is taken to succeed.                    *)
(***************************************************************************)
EXTENDS Integers, Sequences, FiniteSets, TLC

VARIABLES fichero, df, pc, call, ret, stdout, img

vars == <<fichero, df, pc, call, ret, stdout, img>>

\* ------------------------------------------------------------------ bounds
\* Longest DataFrame explored.
MaxLen == 2
\* Largest n passed to the ranking functions by the explored calls.
MaxN == 2

\* Values of the columns in the explored DataFrames.
NIFS == {"B28380582", "B80176936"}
CONTRATISTAS == {"EMT", "ACME"}
SECCIONES == {"EMPRESA MUNICIPAL DE TRANSPORTES S.A.", "DISTRITO CENTRO"}
ANIOS == {2018, 2019}
IMPORTES == {1, 2}

Rows == [NIF : NIFS, CONTRATISTA : CONTRATISTAS, SECCION : SECCIONES,
         ANIO : ANIOS, IMPORTE : IMPORTES]

\* All DataFrames of at most MaxLen rows.
Frames == UNION {[1..k -> Rows] : k \in 0..MaxLen}

\* Arguments of the explored calls.
ArgNifs == NIFS
ArgSecciones == SECCIONES
ArgAnios == SUBSET ANIOS
ArgRango == {2017, 2018, 2019}
ArgN == 0..MaxN

\* -------------------------------------------------------- pandas primitives
\* df[mask], the rows satisfying the mask in the order of df, is SelectSeq.

\* Series.sum() of the column IMPORTE (0 on an empty frame).
RECURSIVE Sum(_)
Sum(d) == IF d = <<>> THEN 0 ELSE Head(d).IMPORTE + Sum(Tail(d))

\* Series.count() of the column IMPORTE: the rows whose amount is not missing.
Count(d) == Len(d)

\* The values a column takes in a frame.
Column(d, col) == {d[i][col] : i \in DOMAIN d}

Min(a, b) == IF a <= b THEN a ELSE b
Max(a, b) == IF a >= b THEN a ELSE b

\* s[:n], Python's slice of a sequence.
Slice(s, n) ==
    IF n >= 0 THEN SubSeq(s, 1, Min(n, Len(s)))
    ELSE SubSeq(s, 1, Max(Len(s) + n, 0))

\* ------------------------------------------------------------ contratos.py
\* What a call does: the exception it ends in ("none" when it returns), the
\* value it returns, what it prints, the images it saves (path -> data) and
\* the rows it leaves in the DataFrame it was passed.
NoFiles == [p \in {} |-> {}]
Returned(d, v) ==
    [exc |-> "none", val |-> v, out |-> <<>>, files |-> NoFiles, frame |-> d]
Raised(d, e) ==
    [exc |-> e, val |-> "none", out |-> <<>>, files |-> NoFiles, frame |-> d]

\* The two-entry dictionaries returned by the scalar aggregators.
Dict(k1, v1, k2, v2) == (k1 :> v1) @@ (k2 :> v2)
NUMERO_DE_CONTRATOS == "Número de contratos"
TOTAL_FACTURADO == "Total facturado"
TOTAL_GASTADO == "Total gastado"

\* empresa(df, nif): .iloc[0] of the names of the rows with that NIF.
\* Mutant: .iloc[-1] instead of .iloc[0].
empresa_last(d, nif) ==
    LET m == SelectSeq(d, LAMBDA r : r.NIF = nif)
    IN  IF m = <<>> THEN Raised(d, "IndexError")
        ELSE Returned(d, m[Len(m)].CONTRATISTA)
empresa(d, nif) ==
    LET m == SelectSeq(d, LAMBDA r : r.NIF = nif)
    IN  IF m = <<>> THEN Raised(d, "IndexError")
        ELSE Returned(d, m[1].CONTRATISTA)

\* Mutant: the first matching row is read, which fails when no row matches.
facturacion_empresa_anios_iloc(d, nif, anios) ==
    LET df1 == SelectSeq(d, LAMBDA r : r.NIF = nif /\ r.ANIO \in anios)
    IN  IF df1 = <<>> THEN Raised(d, "IndexError")
        ELSE Returned(d, Dict(NUMERO_DE_CONTRATOS, Count(df1),
                              TOTAL_FACTURADO, Sum(df1)))
\* Mutant: the year filter is dropped.
facturacion_empresa_anios_sin_anios(d, nif, anios) ==
    LET df1 == SelectSeq(d, LAMBDA r : r.NIF = nif)
    IN  Returned(d, Dict(NUMERO_DE_CONTRATOS, Count(df1),
                         TOTAL_FACTURADO, Sum(df1)))
facturacion_empresa_anios(d, nif, anios) ==
    LET df1 == SelectSeq(d, LAMBDA r : r.NIF = nif /\ r.ANIO \in anios)
    IN  Returned(d, Dict(NUMERO_DE_CONTRATOS, Count(df1),
                         TOTAL_FACTURADO, Sum(df1)))

\* Mutant: the filtered rows replace the rows of the frame passed.
gasto_seccion_anios_inplace(d, seccion, anios) ==
    LET df1 == SelectSeq(d, LAMBDA r : r.SECCION = seccion /\ r.ANIO \in anios)
    IN  Returned(df1, Dict(NUMERO_DE_CONTRATOS, Count(df1),
                           TOTAL_GASTADO, Sum(df1)))
gasto_seccion_anios(d, seccion, anios) ==
    LET df1 == SelectSeq(d, LAMBDA r : r.SECCION = seccion /\ r.ANIO \in anios)
    IN  Returned(d, Dict(NUMERO_DE_CONTRATOS, Count(df1),
                         TOTAL_GASTADO, Sum(df1)))

\* Mutant: the contractor and section masks are joined with | instead of &.
facturacion_empresa_seccion_anios_or(d, nif, seccion, anios) ==
    LET df1 == SelectSeq(d, LAMBDA r : (r.NIF = nif \/ r.SECCION = seccion)
                                      /\ r.ANIO \in anios)
    IN  Returned(d, Dict(NUMERO_DE_CONTRATOS, Count(df1),
                         TOTAL_FACTURADO, Sum(df1)))
facturacion_empresa_seccion_anios(d, nif, seccion, anios) ==
    LET df1 == SelectSeq(d, LAMBDA r : r.NIF = nif /\ r.SECCION = seccion
                                      /\ r.ANIO \in anios)
    IN  Returned(d, Dict(NUMERO_DE_CONTRATOS, Count(df1),
                         TOTAL_FACTURADO, Sum(df1)))

\* Mutant: .first() instead of .sum().
GroupByNif_first(d) ==
    [k \in Column(d, "NIF") |-> SelectSeq(d, LAMBDA r : r.NIF = k)[1].IMPORTE]

\* groupby('NIF')['IMPORTE'].sum(): one total per NIF present in the frame.
GroupByNif(d) ==
    [k \in Column(d, "NIF") |-> Sum(SelectSeq(d, LAMBDA r : r.NIF = k))]

\* Mutant: ascending order.
SortValuesDesc_asc(s) ==
    {o \in [1..Cardinality(DOMAIN s) -> DOMAIN s] :
        /\ \A i, j \in DOMAIN o : i # j => o[i] # o[j]
        /\ \A i, j \in DOMAIN o : i < j => s[o[i]] <= s[o[j]]}

\* sort_values(ascending=False) of a grouped Series: its keys by descending
\* total.  The default sort is not stable, so keys of equal total come in any
\* order: the operator is the set of the orders the sort can produce.
SortValuesDesc(s) ==
    {o \in [1..Cardinality(DOMAIN s) -> DOMAIN s] :
        /\ \A i, j \in DOMAIN o : i # j => o[i] # o[j]
        /\ \A i, j \in DOMAIN o : i < j => s[o[i]] >= s[o[j]]}

EmpresasPath(n) == "img/empresas-mayor-facturacion-" \o ToString(n) \o ".png"

\* empresas_mayor_facturacion(df, años, n): the outcomes the call can have, one
\* per order the sort can produce.  Line 78 renames each of the first n keys
\* with empresa(df, x); the renamed Series is printed, drawn and saved.
empresas_mayor_facturacion(d, anios, n) ==
    LET df1 == SelectSeq(d, LAMBDA r : r.ANIO \in anios)
        g == GroupByNif(df1)
    IN  {LET top == Slice(o, n)
         IN  IF \E i \in DOMAIN top : empresa(d, top[i]).exc # "none"
             THEN Raised(d, "IndexError")
             ELSE LET t == [i \in DOMAIN top |->
                              [label |-> empresa(d, top[i]).val,
                               IMPORTE |-> g[top[i]]]]
                  IN  [exc |-> "none", val |-> "None", out |-> <<t>>,
                       files |-> (EmpresasPath(n) :> t), frame |-> d]
         : o \in SortValuesDesc(g)}

\* groupby([AÑO, key])['IMPORTE'].sum(): one entry per (year, key) present.
GroupByAnio(d, key) ==
    {[ANIO |-> y, key |-> k, label |-> k,
      IMPORTE |-> Sum(SelectSeq(d, LAMBDA r : r.ANIO = y /\ r[key] = k))]
        : <<y, k>> \in {<<d[i].ANIO, d[i][key]>> : i \in DOMAIN d}}

\* Series.unstack(): years as rows, labels as columns, NaN where a (year,
\* label) has no entry; two entries with one (year, label) cannot be reshaped.
NaN == "NaN"
Unstack(d, s) ==
    IF \E a, b \in s : a # b /\ a.ANIO = b.ANIO /\ a.label = b.label
    THEN Raised(d, "ValueError")
    ELSE Returned(d,
           [index |-> {a.ANIO : a \in s},
            columns |-> {a.label : a \in s},
            cell |-> [y \in {a.ANIO : a \in s} |-> [c \in {a.label : a \in s} |->
                        IF \E a \in s : a.ANIO = y /\ a.label = c
                        THEN (CHOOSE a \in s : a.ANIO = y /\ a.label = c).IMPORTE
                        ELSE NaN]]])

EvolucionEmpresasPath(n) ==
    "img/evolucion-empresas-mayor-facturacion" \o ToString(n) \o ".png"

\* evolucion_empresas_mayor_facturacion(df, inicio, fin, n): the outcomes the
\* call can have, one per order the sort can produce.
evolucion_empresas_mayor_facturacion(d, inicio, fin, n) ==
    LET df1 == SelectSeq(d, LAMBDA r : r.ANIO >= inicio /\ r.ANIO <= fin)
        df2 == GroupByNif(df1)
    IN  {LET top == Slice(o, n)
             nifs == {top[i] : i \in DOMAIN top}
             df3 == SelectSeq(df1, LAMBDA r : r.NIF \in nifs)
             g == GroupByAnio(df3, "NIF")
         IN  IF \E a \in g : empresa(d, a.key).exc # "none"
             THEN Raised(d, "IndexError")
             ELSE LET t == Unstack(d, {[a EXCEPT !.label = empresa(d, a.key).val]
                                         : a \in g})
                  IN  IF t.exc # "none" THEN t
                      ELSE [exc |-> "none", val |-> "None", out |-> <<>>,
                            files |-> (EvolucionEmpresasPath(n) :> t.val),
                            frame |-> d]
         : o \in SortValuesDesc(df2)}

EvolucionSeccionesPath(inicio, fin) ==
    "img/evolucion-secciones-" \o ToString(inicio) \o ":" \o ToString(fin) \o ".png"

\* Mutant: the last year is left out of the range.
evolucion_facturacion_secciones_exclusive(d, inicio, fin) ==
    LET df1 == SelectSeq(d, LAMBDA r : r.ANIO >= inicio /\ r.ANIO < fin)
        t == Unstack(d, GroupByAnio(df1, "SECCION"))
    IN  IF t.exc # "none" THEN t
        ELSE [exc |-> "none", val |-> "None", out |-> <<>>,
              files |-> (EvolucionSeccionesPath(inicio, fin) :> t.val),
              frame |-> d]
evolucion_facturacion_secciones(d, inicio, fin) ==
    LET df1 == SelectSeq(d, LAMBDA r : r.ANIO >= inicio /\ r.ANIO <= fin)
        t == Unstack(d, GroupByAnio(df1, "SECCION"))
    IN  IF t.exc # "none" THEN t
        ELSE [exc |-> "none", val |-> "None", out |-> <<>>,
              files |-> (EvolucionSeccionesPath(inicio, fin) :> t.val),
              frame |-> d]

\* ------------------------------------------------------------------ state
\* The name df before main.py binds it.
NoDf == <<[unbound |-> TRUE]>>
\* The input file holding the rows d.
File(d) == [existe |-> TRUE, filas |-> d]
NoCall == [op |-> "none"]
NoRet == [exc |-> "none", val |-> "none"]

\* df.sort_values(['AÑO']) keeps the rows and orders them by year.
SortedByAnio(d) == \A i, j \in DOMAIN d : i < j => d[i].ANIO <= d[j].ANIO

\* A session that imported contratos and holds a loaded and sorted frame.
Init ==
    /\ df \in {d \in Frames : SortedByAnio(d)}
    /\ fichero = File(df)
    /\ pc = "idle"
    /\ call = NoCall
    /\ ret = NoRet
    /\ stdout = <<>>
    /\ img = NoFiles

\* The effects of a call with outcome o on the session.
Effects(o) ==
    /\ ret' = [exc |-> o.exc, val |-> o.val]
    /\ stdout' = stdout \o o.out
    /\ img' = o.files @@ img
    /\ df' = o.frame

CallEmpresa ==
    /\ pc = "idle"
    /\ \E nif \in ArgNifs :
        /\ call' = [op |-> "empresa", nif |-> nif]
        /\ Effects(empresa(df, nif))
    /\ pc' = "returned"
    /\ UNCHANGED fichero

CallFacturacionEmpresaAnios ==
    /\ pc = "idle"
    /\ \E nif \in ArgNifs, anios \in ArgAnios :
        /\ call' = [op |-> "facturacion_empresa_anios", nif |-> nif, anios |-> anios]
        /\ Effects(facturacion_empresa_anios(df, nif, anios))
    /\ pc' = "returned"
    /\ UNCHANGED fichero

CallGastoSeccionAnios ==
    /\ pc = "idle"
    /\ \E seccion \in ArgSecciones, anios \in ArgAnios :
        /\ call' = [op |-> "gasto_seccion_anios", seccion |-> seccion, anios |-> anios]
        /\ Effects(gasto_seccion_anios(df, seccion, anios))
    /\ pc' = "returned"
    /\ UNCHANGED fichero

CallFacturacionEmpresaSeccionAnios ==
    /\ pc = "idle"
    /\ \E nif \in ArgNifs, seccion \in ArgSecciones, anios \in ArgAnios :
        /\ call' = [op |-> "facturacion_empresa_seccion_anios", nif |-> nif,
                    seccion |-> seccion, anios |-> anios]
        /\ Effects(facturacion_empresa_seccion_anios(df, nif, seccion, anios))
    /\ pc' = "returned"
    /\ UNCHANGED fichero

CallEmpresasMayorFacturacion ==
    /\ pc = "idle"
    /\ \E anios \in ArgAnios, n \in ArgN :
        /\ call' = [op |-> "empresas_mayor_facturacion", anios |-> anios, n |-> n]
        /\ \E o \in empresas_mayor_facturacion(df, anios, n) : Effects(o)
    /\ pc' = "returned"
    /\ UNCHANGED fichero

CallEvolucionEmpresasMayorFacturacion ==
    /\ pc = "idle"
    /\ \E inicio \in ArgRango, fin \in ArgRango, n \in ArgN :
        /\ call' = [op |-> "evolucion_empresas_mayor_facturacion",
                    inicio |-> inicio, fin |-> fin, n |-> n]
        /\ \E o \in evolucion_empresas_mayor_facturacion(df, inicio, fin, n) :
              Effects(o)
    /\ pc' = "returned"
    /\ UNCHANGED fichero

CallEvolucionFacturacionSecciones ==
    /\ pc = "idle"
    /\ \E inicio \in ArgRango, fin \in ArgRango :
        /\ call' = [op |-> "evolucion_facturacion_secciones",
                    inicio |-> inicio, fin |-> fin]
        /\ Effects(evolucion_facturacion_secciones(df, inicio, fin))
    /\ pc' = "returned"
    /\ UNCHANGED fichero

Next ==
    \/ CallEmpresa
    \/ CallFacturacionEmpresaAnios
    \/ CallGastoSeccionAnios
    \/ CallFacturacionEmpresaSeccionAnios
    \/ CallEmpresasMayorFacturacion
    \/ CallEvolucionEmpresasMayorFacturacion
    \/ CallEvolucionFacturacionSecciones

Spec == Init /\ [][Next]_vars

\* ----------------------------------------------------------------- main.py
\* The input file when it does not exist.
NoFile == [existe |-> FALSE, filas |-> <<>>]
ruta == "datos/datos-contratos-menores.csv"

\* The arguments main.py passes.
MainNif16 == "B28380582"
MainNif18 == "B80176936"
MainSeccion == "EMPRESA MUNICIPAL DE TRANSPORTES S.A."
MainAnios == {2018, 2019}
MainN == 10
DefaultN == 10
MainInicio == 2017
MainFin == 2019

\* df.sort_values(['AÑO']): the rows of d ordered by year; the default sort
\* is not stable, so rows of one year come in any order.
SortValuesAnio(d) ==
    {e \in {[i \in DOMAIN d |-> d[p[i]]] : p \in Permutations(DOMAIN d)} :
        SortedByAnio(e)}

\* A run of main.py: the file is missing or holds any frame.
InitMain ==
    /\ fichero \in {File(d) : d \in Frames} \cup {NoFile}
    /\ df = NoDf
    /\ pc = "l8"
    /\ call = NoCall
    /\ ret = NoRet
    /\ stdout = <<>>
    /\ img = NoFiles

\* Line 8: pd.read_csv(ruta, sep=';').
MainReadCsv ==
    /\ pc = "l8"
    /\ IF ~fichero.existe
       THEN /\ pc' = "l10"
            /\ UNCHANGED df
       ELSE /\ df' = fichero.filas
            /\ pc' = "l14"
    /\ UNCHANGED <<fichero, call, ret, stdout, img>>

\* Mutant: the statements of the else branch follow the try statement, so
\* after the message the run reaches df unbound and ends with a traceback.
MainExcept_fallthrough ==
    /\ pc = "l10"
    /\ stdout' = Append(stdout, <<"El fichero ", ruta, "no existe">>)
    /\ pc' = "crashed"
    /\ UNCHANGED <<fichero, df, call, ret, img>>

\* Lines 9-10: except FileNotFoundError: print(...); the else branch is skipped.
MainExcept ==
    /\ pc = "l10"
    /\ stdout' = Append(stdout, <<"El fichero ", ruta, "no existe">>)
    /\ pc' = "done"
    /\ UNCHANGED <<fichero, df, call, ret, img>>

\* Line 14: df = df.sort_values(['AÑO']).
MainSort ==
    /\ pc = "l14"
    /\ df' \in SortValuesAnio(df)
    /\ pc' = "l15"
    /\ UNCHANGED <<fichero, call, ret, stdout, img>>

\* Line 15: print(df).
MainPrintDf ==
    /\ pc = "l15"
    /\ stdout' = Append(stdout, df)
    /\ pc' = "l16"
    /\ UNCHANGED <<fichero, df, call, ret, img>>

\* A statement of main.py that calls with outcome o and, when print is set,
\* prints the value returned; an exception ends the run with a traceback.
MainCall(o, print, next) ==
    /\ ret' = [exc |-> o.exc, val |-> o.val]
    /\ img' = o.files @@ img
    /\ df' = o.frame
    /\ IF o.exc = "none"
       THEN /\ stdout' = (IF print THEN Append(stdout \o o.out, o.val)
                          ELSE stdout \o o.out)
            /\ pc' = next
       ELSE /\ stdout' = stdout \o o.out
            /\ pc' = "crashed"
    /\ UNCHANGED fichero

\* Line 16.
Main16 ==
    /\ pc = "l16"
    /\ call' = [op |-> "facturacion_empresa_anios", nif |-> MainNif16,
                anios |-> MainAnios]
    /\ MainCall(facturacion_empresa_anios(df, MainNif16, MainAnios), TRUE, "l17")

\* Line 17.
Main17 ==
    /\ pc = "l17"
    /\ call' = [op |-> "gasto_seccion_anios", seccion |-> MainSeccion,
                anios |-> MainAnios]
    /\ MainCall(gasto_seccion_anios(df, MainSeccion, MainAnios), TRUE, "l18")

\* Line 18.
Main18 ==
    /\ pc = "l18"
    /\ call' = [op |-> "facturacion_empresa_seccion_anios", nif |-> MainNif18,
                seccion |-> MainSeccion, anios |-> MainAnios]
    /\ MainCall(facturacion_empresa_seccion_anios(df, MainNif18, MainSeccion,
                                                  MainAnios), TRUE, "l19")

\* Line 19.
Main19 ==
    /\ pc = "l19"
    /\ call' = [op |-> "empresas_mayor_facturacion", anios |-> MainAnios,
                n |-> MainN]
    /\ \E o \in empresas_mayor_facturacion(df, MainAnios, MainN) :
          MainCall(o, FALSE, "l20")

\* Line 20.
Main20 ==
    /\ pc = "l20"
    /\ call' = [op |-> "evolucion_empresas_mayor_facturacion",
                inicio |-> MainInicio, fin |-> MainFin, n |-> DefaultN]
    /\ \E o \in evolucion_empresas_mayor_facturacion(df, MainInicio, MainFin,
                                                      DefaultN) :
          MainCall(o, FALSE, "l21")

\* Line 21.
Main21 ==
    /\ pc = "l21"
    /\ call' = [op |-> "evolucion_facturacion_secciones",
                inicio |-> MainInicio, fin |-> MainFin]
    /\ MainCall(evolucion_facturacion_secciones(df, MainInicio, MainFin),
                FALSE, "done")

NextMain ==
    \/ MainReadCsv
    \/ MainExcept
    \/ MainSort
    \/ MainPrintDf
    \/ Main16
    \/ Main17
    \/ Main18
    \/ Main19
    \/ Main20
    \/ Main21

SpecMain == InitMain /\ [][NextMain]_vars

\* ---------------------------------------------------------------- properties
\* The positions of the rows of df of the years Y, and of the years a..b.
InYears(Y) == {i \in DOMAIN df : df[i].ANIO \in Y}
InRange(a, b) == {i \in DOMAIN df : df[i].ANIO >= a /\ df[i].ANIO <= b}

\* The sum of the amounts of the rows of df at the positions S.
RECURSIVE Total(_)
Total(S) == IF S = {} THEN 0
            ELSE LET i == CHOOSE x \in S : TRUE
                 IN  df[i].IMPORTE + Total(S \ {i})

ScalarOps == {"facturacion_empresa_anios", "gasto_seccion_anios",
              "facturacion_empresa_seccion_anios"}

\* The rows the filter of the scalar aggregator last called selects.
Selected ==
    CASE call.op = "facturacion_empresa_anios" ->
            {i \in InYears(call.anios) : df[i].NIF = call.nif}
      [] call.op = "gasto_seccion_anios" ->
            {i \in InYears(call.anios) : df[i].SECCION = call.seccion}
      [] call.op = "facturacion_empresa_seccion_anios" ->
            {i \in InYears(call.anios) : df[i].NIF = call.nif
                                          /\ df[i].SECCION = call.seccion}

TotalKey == IF call.op = "gasto_seccion_anios" THEN TOTAL_GASTADO
            ELSE TOTAL_FACTURADO

\* C1: each scalar aggregator returns, without failing, the number of the rows
\* that satisfy its whole filter and the sum of their amounts; 0 and 0 when no
\* row matches.
C1_ScalarAggregators ==
    (pc = "returned" /\ call.op \in ScalarOps) =>
        /\ ret.exc = "none"
        /\ DOMAIN ret.val = {NUMERO_DE_CONTRATOS, TotalKey}
        /\ ret.val[NUMERO_DE_CONTRATOS] = Cardinality(Selected)
        /\ ret.val[TotalKey] = Total(Selected)
        /\ Selected = {} => ret.val[NUMERO_DE_CONTRATOS] = 0 /\ ret.val[TotalKey] = 0

\* C1 witness: an aggregator has counted the one matching row of a frame that
\* also holds a row of the same contractor in a year outside the year set.
C1_Witness ==
    /\ pc = "returned"
    /\ call.op = "facturacion_empresa_anios"
    /\ Cardinality(Selected) = 1
    /\ Len(df) = 2
    /\ \E i \in DOMAIN df : df[i].NIF = call.nif /\ df[i].ANIO \notin call.anios

\* The first row of df, in order, with the NIF c.
FirstRow(c) ==
    LET S == {i \in DOMAIN df : df[i].NIF = c}
    IN  df[CHOOSE i \in S : \A j \in S : i <= j]

\* C4: empresa returns the name of the first row with the NIF, and fails with
\* a lookup error, returning nothing, when no row has it.
C4_Empresa ==
    (pc = "returned" /\ call.op = "empresa") =>
        IF {i \in DOMAIN df : df[i].NIF = call.nif} = {}
        THEN ret.exc = "IndexError" /\ ret.val = "none"
        ELSE ret.exc = "none" /\ ret.val = FirstRow(call.nif).CONTRATISTA

\* C4 witness: the lookup has answered for a NIF whose two rows carry
\* different names.
C4_Witness ==
    /\ pc = "returned"
    /\ call.op = "empresa"
    /\ ret.exc = "none"
    /\ Len(df) = 2
    /\ df[1].NIF = call.nif /\ df[2].NIF = call.nif
    /\ df[1].CONTRATISTA # df[2].CONTRATISTA

\* C6: the count of facturacion_empresa_seccion_años is at most the count of
\* facturacion_empresa_años and at most the count of gasto_seccion_años for
\* the same contractor, section and years.
C6_CountBound ==
    (pc = "returned" /\ call.op = "facturacion_empresa_seccion_anios") =>
        ret.val[NUMERO_DE_CONTRATOS] <=
            Min(facturacion_empresa_anios(df, call.nif, call.anios)
                    .val[NUMERO_DE_CONTRATOS],
                gasto_seccion_anios(df, call.seccion, call.anios)
                    .val[NUMERO_DE_CONTRATOS])

\* C6 witness: the three counts differ (1 < 2 on one side).
C6_Witness ==
    /\ pc = "returned"
    /\ call.op = "facturacion_empresa_seccion_anios"
    /\ ret.val[NUMERO_DE_CONTRATOS] = 1
    /\ facturacion_empresa_anios(df, call.nif, call.anios)
           .val[NUMERO_DE_CONTRATOS] = 2

\* The contractors with a row in the years Y, and the total of contractor c
\* over the years Y.
Contractors(Y) == {df[i].NIF : i \in InYears(Y)}
TotalOf(c, Y) == Total({i \in DOMAIN df : df[i].NIF = c /\ df[i].ANIO \in Y})

\* The sets of min(n, k) contractors that a descending ranking over the years
\* Y can list: none left out has a greater total than one listed.
TopSets(Y, n) ==
    {K \in SUBSET Contractors(Y) :
        /\ Cardinality(K) = Min(n, Cardinality(Contractors(Y)))
        /\ \A a \in K, b \in Contractors(Y) \ K : TotalOf(a, Y) >= TotalOf(b, Y)}

\* C2: the ranking printed and charted by empresas_mayor_facturacion lists
\* min(N, k) of the k contractors with a row in Y, each once with its total
\* over Y, in descending order of total, and none left out has a greater
\* total than one listed; it is empty for N = 0 and complete for N > k.
C2_Ranking ==
    (pc = "returned" /\ call.op = "empresas_mayor_facturacion") =>
        /\ ret.exc = "none"
        /\ Len(stdout) = 1
        /\ img = (EmpresasPath(call.n) :> stdout[1])
        /\ LET r == stdout[1]
               k == Cardinality(Contractors(call.anios))
           IN  /\ Len(r) = Min(call.n, k)
               /\ \A i, j \in DOMAIN r : i < j => r[i].IMPORTE >= r[j].IMPORTE
               /\ \E K \in TopSets(call.anios, call.n) :
                    \E f \in [DOMAIN r -> K] :
                        /\ \A i, j \in DOMAIN r : i # j => f[i] # f[j]
                        /\ \A i \in DOMAIN r :
                            /\ r[i].IMPORTE = TotalOf(f[i], call.anios)
                            /\ r[i].label = FirstRow(f[i]).CONTRATISTA
               /\ call.n = 0 => r = <<>>
               /\ call.n > k => Len(r) = k

\* C2 witness: a top-1 ranking has cut the lesser of two contractors.
C2_Witness ==
    /\ pc = "returned"
    /\ call.op = "empresas_mayor_facturacion"
    /\ call.n = 1
    /\ Cardinality(Contractors(call.anios)) = 2
    /\ \E c \in Contractors(call.anios) : TotalOf(c, call.anios) < stdout[1][1].IMPORTE

\* C3: no reporting call changes the DataFrame.
C3_NoMutation == [][df' = df]_vars

\* C3 witness: a reporting call has returned over a frame of two rows.
C3_Witness ==
    /\ pc = "returned"
    /\ call.op = "evolucion_empresas_mayor_facturacion"
    /\ ret.exc = "none"
    /\ Len(df) = 2
    /\ df = fichero.filas

\* The sum of the totals of a Series grouped by NIF, and of one grouped by
\* (year, key).
RECURSIVE SumSeries(_)
SumSeries(s) == IF DOMAIN s = {} THEN 0
                ELSE LET k == CHOOSE x \in DOMAIN s : TRUE
                     IN  s[k] + SumSeries([x \in DOMAIN s \ {k} |-> s[x]])
RECURSIVE SumEntries(_)
SumEntries(s) == IF s = {} THEN 0
                 ELSE LET a == CHOOSE x \in s : TRUE
                      IN  a.IMPORTE + SumEntries(s \ {a})

\* C5: the totals of the groups add up to the total of the filtered rows, in
\* the grouping by contractor of the two rankings and in the grouping by
\* (year, section).
C5_GroupingPartition ==
    /\ (pc = "returned" /\ call.op = "empresas_mayor_facturacion") =>
          SumSeries(GroupByNif(SelectSeq(df, LAMBDA r : r.ANIO \in call.anios)))
            = Total(InYears(call.anios))
    /\ (pc = "returned" /\ call.op = "evolucion_empresas_mayor_facturacion") =>
          SumSeries(GroupByNif(SelectSeq(df, LAMBDA r : r.ANIO >= call.inicio
                                                    /\ r.ANIO <= call.fin)))
            = Total(InRange(call.inicio, call.fin))
    /\ (pc = "returned" /\ call.op = "evolucion_facturacion_secciones") =>
          SumEntries(GroupByAnio(SelectSeq(df, LAMBDA r : r.ANIO >= call.inicio
                                                      /\ r.ANIO <= call.fin),
                                 "SECCION"))
            = Total(InRange(call.inicio, call.fin))

\* C5 witness: a ranking has grouped two rows of one contractor.
C5_Witness ==
    /\ pc = "returned"
    /\ call.op = "empresas_mayor_facturacion"
    /\ Len(df) = 2
    /\ df[1].NIF = df[2].NIF
    /\ call.anios = {df[1].ANIO, df[2].ANIO}

\* The message main.py prints when the file is missing.
NoExiste == <<"El fichero ", ruta, "no existe">>

\* C7: with the input file missing, the run prints the one message and ends
\* normally; the frame is never bound, sorted or printed, no function of
\* contratos is called and no image is saved.
C7_MissingFile ==
    ~fichero.existe =>
        /\ pc \in {"l8", "l10", "done"}
        /\ df = NoDf
        /\ call = NoCall
        /\ ret = NoRet
        /\ img = NoFiles
        /\ stdout = (IF pc = "done" THEN <<NoExiste>> ELSE <<>>)

\* C7 witness: the run has ended after the file was found missing.
C7_Witness == ~fichero.existe /\ pc = "done"

\* The key of the scalar aggregator last called is in none of the rows of
\* the given years.
KeyAbsent ==
    CASE call.op = "facturacion_empresa_anios" ->
            {i \in InYears(call.anios) : df[i].NIF = call.nif} = {}
      [] call.op = "gasto_seccion_anios" ->
            {i \in InYears(call.anios) : df[i].SECCION = call.seccion} = {}
      [] call.op = "facturacion_empresa_seccion_anios" ->
            \/ {i \in InYears(call.anios) : df[i].NIF = call.nif} = {}
            \/ {i \in InYears(call.anios) : df[i].SECCION = call.seccion} = {}

RankingOps == {"empresas_mayor_facturacion", "evolucion_empresas_mayor_facturacion",
               "evolucion_facturacion_secciones"}

\* C8 as stated: an aggregation function called with a contractor or section
\* that is absent from the filtered rows ends in a failure.
C8_AbsentKeyFails ==
    (pc = "returned" /\ call.op \in ScalarOps /\ KeyAbsent) => ret.exc # "none"

\* C8 as amended: a scalar aggregator called with an absent contractor or
\* section returns count 0 and sum 0; the ranking and evolution functions look
\* up only identifiers taken from the frame and never end in a lookup failure;
\* only empresa, called with a NIF no row has, ends in the lookup failure.
C8_OnlyEmpresaFails ==
    /\ (pc = "returned" /\ call.op \in ScalarOps /\ KeyAbsent) =>
          /\ ret.exc = "none"
          /\ ret.val[NUMERO_DE_CONTRATOS] = 0
          /\ ret.val[TotalKey] = 0
    /\ (pc = "returned" /\ call.op \in RankingOps) => ret.exc # "IndexError"
    /\ (pc = "returned" /\ call.op = "empresa") =>
          (ret.exc = "IndexError" <=> call.nif \notin Column(df, "NIF"))

\* C8 witness: a scalar aggregator has returned for a contractor that no row
\* of the frame has.
C8_Witness ==
    /\ pc = "returned"
    /\ call.op = "facturacion_empresa_anios"
    /\ call.nif \notin Column(df, "NIF")
    /\ df # <<>>
    /\ call.anios = ANIOS

\* The years inicio..fin, and the table of yearly totals of the contractors
\* K under their names: what a chart with one series per contractor shows.
Years(inicio, fin) == {y \in inicio..fin : TRUE}
Name(c) == FirstRow(c).CONTRATISTA
IsEvolutionOf(t, K, Y) ==
    /\ t.columns = {Name(c) : c \in K}
    /\ Cardinality(t.columns) = Cardinality(K)
    /\ t.index = {df[i].ANIO : i \in {j \in InYears(Y) : df[j].NIF \in K}}
    /\ \A c \in K, y \in t.index :
          LET S == {i \in DOMAIN df : df[i].NIF = c /\ df[i].ANIO = y}
          IN  t.cell[y][Name(c)] = (IF S = {} THEN NaN ELSE Total(S))

\* C9: for inicio <= fin the table charted by
\* evolucion_empresas_mayor_facturacion has one series per contractor of a
\* top-N set chosen by total over the whole range; each value is the total of
\* the contractor in the year, absent where the contractor has no row.
C9_EvolucionEmpresas ==
    (pc = "returned" /\ call.op = "evolucion_empresas_mayor_facturacion"
        /\ call.inicio <= call.fin) =>
        /\ ret.exc = "none"
        /\ DOMAIN img = {EvolucionEmpresasPath(call.n)}
        /\ \E K \in TopSets(Years(call.inicio, call.fin), call.n) :
              IsEvolutionOf(img[EvolucionEmpresasPath(call.n)], K,
                            Years(call.inicio, call.fin))

\* The contractors with a row in inicio..fin carry names that differ.
DistinctNames ==
    \A a, b \in Contractors(Years(call.inicio, call.fin)) :
        a # b => Name(a) # Name(b)

\* C9 holds of the calls over frames whose contractors in the range carry
\* different names.
C9_WithDistinctNames ==
    (pc = "returned" /\ call.op = "evolucion_empresas_mayor_facturacion"
        /\ call.inicio <= call.fin /\ DistinctNames) =>
        /\ ret.exc = "none"
        /\ DOMAIN img = {EvolucionEmpresasPath(call.n)}
        /\ \E K \in TopSets(Years(call.inicio, call.fin), call.n) :
              IsEvolutionOf(img[EvolucionEmpresasPath(call.n)], K,
                            Years(call.inicio, call.fin))

\* C10: the table charted by evolucion_facturacion_secciones has one series
\* for each section with a row in inicio..fin and for no other; each value is
\* the total of the rows of the section in the year.
C10_EvolucionSecciones ==
    (pc = "returned" /\ call.op = "evolucion_facturacion_secciones") =>
        /\ ret.exc = "none"
        /\ DOMAIN img = {EvolucionSeccionesPath(call.inicio, call.fin)}
        /\ LET t == img[EvolucionSeccionesPath(call.inicio, call.fin)]
               R == InRange(call.inicio, call.fin)
           IN  /\ t.columns = {df[i].SECCION : i \in R}
               /\ t.index = {df[i].ANIO : i \in R}
               /\ \A y \in t.index, c \in t.columns :
                     LET S == {i \in DOMAIN df : df[i].SECCION = c /\ df[i].ANIO = y}
                     IN  t.cell[y][c] = (IF S = {} THEN NaN ELSE Total(S))

\* C10 witness: two sections charted over two years, each with a year without
\* rows.
C10_Witness ==
    /\ pc = "returned"
    /\ call.op = "evolucion_facturacion_secciones"
    /\ ret.exc = "none"
    /\ call.inicio = 2018 /\ call.fin = 2019
    /\ Len(df) = 2
    /\ df[1].SECCION # df[2].SECCION
    /\ df[1].ANIO # df[2].ANIO
====
